---- MODULE Spec2Model ----
(***************************************************************************)
(* Model of the produce path of librdkafka (src/rdkafka_msg.c):            *)
(*   rd_kafka_msg_new, rd_kafka_msg_destroy, rd_kafka_msg_partitioner and  *)
(*   rd_kafka_msgq_age_scan.                                               *)
(* Several application threads call rd_kafka_msg_new concurrently; the     *)
(* metadata refresher, the clock and the broker thread are the             *)
(* environment.  Time is in microseconds, as returned by rd_clock().       *)
(***************************************************************************)
EXTENDS Integers, Sequences, FiniteSets, TLC

(* ------------------------------ bounds --------------------------------- *)
\* number of application threads calling rd_kafka_msg_new
NumThreads == 2
\* total number of rd_kafka_msg_new calls in one behaviour
MaxCalls == 2
\* ordinary payload and key lengths are drawn from 0..MaxLen
MaxLen == 1
\* partition counts are drawn from 0..MaxPart
MaxPart == 1
\* rd_clock() advances MaxTicks times, by one metadata trust window each time
MaxTicks == 1

(* --------------------------- configuration ----------------------------- *)
\* rk_conf.max_msg_size
max_msg_size == 1
\* rkt_conf.message_timeout_ms
message_timeout_ms == 1
\* rk_conf.metadata_refresh_interval_ms
metadata_refresh_interval_ms == 1

(* ----------------------------- constants ------------------------------- *)
RD_KAFKA_PARTITION_UA == -1
RD_KAFKA_MSG_F_FREE == "F_FREE"
RD_KAFKA_MSG_F_COPY == "F_COPY"
RD_KAFKA_TOPIC_S_UNKNOWN == "S_UNKNOWN"
RD_KAFKA_TOPIC_S_EXISTS == "S_EXISTS"
RD_KAFKA_RESP_ERR_NO_ERROR == "NO_ERROR"
RD_KAFKA_RESP_ERR__UNKNOWN_PARTITION == "UNKNOWN_PARTITION"
RD_KAFKA_RESP_ERR__UNKNOWN_TOPIC == "UNKNOWN_TOPIC"

Threads == 1..NumThreads
\* one record more than the produce calls can allocate
MsgIds == 1..(MaxCalls + 1)
NoMsg == 0

(* ----------------------------- size_t ---------------------------------- *)
\* A size_t value is 64 bits wide.  It is written as NumLimbs limbs of
\* LimbBits bits, least significant first, so that the arithmetic of line 67
\* and line 82 is done at its true width.
LimbBits == 16
NumLimbs == 4
LimbBase == 2^LimbBits

\* the size_t value of a number below LimbBase
SizeT(n) == [i \in 1..NumLimbs |-> IF i = 1 THEN n ELSE 0]

\* (size_t)-1
SIZE_MAX == [i \in 1..NumLimbs |-> LimbBase - 1]

\* 2^63, the smallest length no object can have
SIZE_HALF == [i \in 1..NumLimbs |-> IF i = NumLimbs THEN LimbBase \div 2 ELSE 0]

\* the largest size malloc can return a block of
PTRDIFF_MAX ==
  [i \in 1..NumLimbs |-> IF i = NumLimbs THEN LimbBase \div 2 - 1 ELSE LimbBase - 1]

\* the carry into limb i of a + b
RECURSIVE CarryIn(_, _, _)
CarryIn(a, b, i) ==
  IF i = 1 THEN 0
  ELSE (a[i - 1] + b[i - 1] + CarryIn(a, b, i - 1)) \div LimbBase

\* a + b in size_t: the carry out of the top limb is lost
SizeAdd(a, b) ==
  [i \in 1..NumLimbs |-> (a[i] + b[i] + CarryIn(a, b, i)) % LimbBase]

\* TRUE iff a + b does not fit size_t
SizeAddWraps(a, b) == CarryIn(a, b, NumLimbs + 1) = 1

\* a > b decided on limbs i, i-1, .., 1
RECURSIVE GreaterFrom(_, _, _)
GreaterFrom(a, b, i) ==
  IF i = 0 THEN FALSE
  ELSE IF a[i] # b[i] THEN a[i] > b[i]
  ELSE GreaterFrom(a, b, i - 1)

\* a > b in size_t
SizeGreater(a, b) == GreaterFrom(a, b, NumLimbs)

\* the lengths the applications pass: ordinary ones, and the two extremes
SmallLens == {SizeT(n) : n \in 0..MaxLen}
Lens == SmallLens \cup {SIZE_HALF, SIZE_MAX}
FlagSets == SUBSET {RD_KAFKA_MSG_F_FREE, RD_KAFKA_MSG_F_COPY}
Partitions == {RD_KAFKA_PARTITION_UA} \cup (0..(MaxPart - 1))
ForcedPartitions == {RD_KAFKA_PARTITION_UA} \cup (0..MaxPart)
TickUs == metadata_refresh_interval_ms * 3 * 1000
\* the clock starts one trust window after the epoch of rkt_ts_metadata = 0:
\* a topic that never saw metadata is stale
StartClock == metadata_refresh_interval_ms * 3 * 1000
MaxClock == StartClock + MaxTicks * TickUs

VARIABLES
  msg_cnt,            \* rk->rk_producer.msg_cnt
  clock,              \* rd_clock()
  rkt_state,          \* rkt->rkt_state
  rkt_partition_cnt,  \* rkt->rkt_partition_cnt
  rkt_ts_metadata,    \* rkt->rkt_ts_metadata
  rkt_refs,           \* partitions for which rd_kafka_toppar_get returns a reference
  rdlock,             \* threads holding the topic read lock
  queues,             \* rktp message queue of every partition (message ids)
  timedout,           \* the caller's timed-out queue of rd_kafka_msgq_age_scan
  msgs,               \* the rd_kafka_msg_t records, by id
  ncalls,             \* rd_kafka_msg_new calls started
  nmsgs,              \* rd_kafka_msg_t records allocated
  pc,                 \* position of every thread inside rd_kafka_msg_new
  call,               \* arguments, locals and result of the thread's current call
  last_scan,          \* the most recent rd_kafka_msgq_age_scan call
  workload,           \* which application is running (fixed by Init)
  batch,              \* the caller that routes a batch under one read lock
  proc                \* "running"; "corrupt" after a heap overrun; "crashed"

vars == <<msg_cnt, clock, rkt_state, rkt_partition_cnt, rkt_ts_metadata,
          rkt_refs, rdlock, queues, timedout, msgs, ncalls, nmsgs, pc, call,
          last_scan, workload, batch, proc>>

topicVars == <<rkt_state, rkt_partition_cnt, rkt_ts_metadata, rkt_refs>>

(* ----------------------------- applications --------------------------- *)
\* "single": one producer thread that uses every flag and partition with
\*           the small lengths;
\* "overflow": one producer thread that passes a length near SIZE_MAX, while
\*           the sweeper scans the partition queues;
\* "multi":  every thread produces, in borrow mode, empty or oversized messages;
\* "race":   every thread produces empty messages for partition 0, and the
\*           admission ceiling lets two of them be in flight;
\* "batch":  one producer thread, and a caller that holds the topic read lock
\*           and routes the unassigned messages with do_lock = 0;
\* "sweep":  every thread produces empty messages in borrow mode while the
\*           sweeper scans the partition queues
Workloads == {"single", "overflow", "multi", "race", "batch", "sweep"}

ProducerThreads ==
  IF workload \in {"single", "overflow", "batch"} THEN {1} ELSE Threads

LenArgs ==
  IF workload = "single" THEN SmallLens \X SmallLens
  ELSE IF workload = "overflow" THEN (Lens \X Lens) \ (SmallLens \X SmallLens)
  ELSE IF workload = "multi"
    THEN {<<SizeT(0), SizeT(0)>>, <<SizeT(1), SizeT(1)>>}
  ELSE {<<SizeT(0), SizeT(0)>>}

FlagArgs == IF workload \in {"single", "overflow"} THEN FlagSets ELSE {{}}

PartitionArgs == IF workload = "race" THEN {0} ELSE ForcedPartitions

\* rk_conf.queue_buffering_max_msgs: the application of "race" configures
\* room for two messages, the others for one
queue_buffering_max_msgs == IF workload = "race" THEN 2 ELSE 1

\* the number of rd_kafka_msg_new calls the application makes
CallBudget == IF workload = "overflow" THEN MaxCalls - 1 ELSE MaxCalls

\* the partition queues the sweeper scans with rd_kafka_msgq_age_scan
SweptPartitions == IF workload \in {"sweep", "overflow"} THEN Partitions ELSE {}

\* the holder of the read lock that is not a producer thread
BatchCaller == 0

IdleBatch == [pc |-> "idle", routed |-> FALSE, rdlocks |-> 0, unlocks |-> 0]

(* ------------------- collaborators outside this file ------------------- *)
\* rd_atomic_add / rd_atomic_sub: one indivisible update returning the new value
rd_atomic_add(v, n) == v + n

rd_atomic_sub(v, n) == v - n

\* rd_kafka_toppar_get(rkt, partition, 0): TRUE iff a reference is returned
rd_kafka_toppar_get(partition) == partition \in rkt_refs

\* an empty rd_kafka_msgq_t: the TAILQ of messages and its running count
EmptyMsgq == [rkmq_msgs |-> <<>>, rkmq_msg_cnt |-> 0]

\* rd_kafka_msgq_enq(rkmq, rkm): TAILQ_INSERT_TAIL and count + 1
rd_kafka_msgq_enq(q, id) ==
  [rkmq_msgs |-> Append(q.rkmq_msgs, id), rkmq_msg_cnt |-> q.rkmq_msg_cnt + 1]

\* rd_kafka_msgq_deq(rkmq, rkm, do_count): TAILQ_REMOVE and, if counting, count - 1
rd_kafka_msgq_deq(q, id, do_count) ==
  [rkmq_msgs |-> SelectSeq(q.rkmq_msgs, LAMBDA x : x # id),
   rkmq_msg_cnt |-> IF do_count THEN q.rkmq_msg_cnt - 1 ELSE q.rkmq_msg_cnt]

\* rd_kafka_toppar_enq_msg(rktp, rkm): enqueue on the partition's queue
rd_kafka_toppar_enq_msg(q, id) == rd_kafka_msgq_enq(q, id)

(* ------------------------------ messages ------------------------------- *)
IdleCall ==
  [len |-> SizeT(0), keylen |-> SizeT(0), rkm |-> NoMsg, err |-> RD_KAFKA_RESP_ERR_NO_ERROR,
   ret |-> 0, errno |-> "none", added |-> 0, adds |-> 0, subs |-> 0,
   path |-> "none", pcalls |-> 0, rdlocks |-> 0, unlocks |-> 0]

FreeMsg ==
  [used |-> FALSE, alive |-> FALSE, rkm_partition |-> RD_KAFKA_PARTITION_UA,
   rkm_flags |-> {}, arg_flags |-> {}, rkm_key |-> FALSE, rkm_ts_timeout |-> 0,
   payload_frees |-> 0, key_frees |-> 0, rkm_frees |-> 0, slot_releases |-> 0]

\* lines 80-83: F_COPY clears F_FREE
StoredFlags(msgflags) ==
  IF RD_KAFKA_MSG_F_COPY \in msgflags
    THEN msgflags \ {RD_KAFKA_MSG_F_FREE}
    ELSE msgflags

\* lines 93-94: rkm_ts_timeout
MsgDeadline(now) == now + message_timeout_ms * 1000

\* lines 87-104: the record built by rd_kafka_msg_new
NewMsg(force_partition, msgflags, now) ==
  [used |-> TRUE, alive |-> TRUE, rkm_partition |-> force_partition,
   rkm_flags |-> StoredFlags(msgflags), arg_flags |-> msgflags,
   rkm_key |-> TRUE, rkm_ts_timeout |-> MsgDeadline(now),
   payload_frees |-> 0, key_frees |-> 0, rkm_frees |-> 0, slot_releases |-> 0]

\* line 99 with a block that is too short: memcpy writes the bytes that lie
\* around the caller's payload over the record, so every field can hold any
\* value of its type.  rkm_partition (int32_t): the model takes the values
\* from below RD_KAFKA_PARTITION_UA up to the largest partition it uses.
GarbagePartitions == (RD_KAFKA_PARTITION_UA - MaxPart)..MaxPart

\* rkm_ts_timeout (rd_ts_t) after the overrun: the model takes a value of
\* every kind the code tells apart: two that have passed at every clock value
\* (0, and the 81 a heap block header leaves there), the deadline line 93
\* wrote, and one that no clock value reaches
GarbageTimeouts(now) == {0, 81, MsgDeadline(now), 9000000}

\* lines 88-99 when the block is too short: the record after the overrun
GarbageMsgs(msgflags, now) ==
  {[used |-> TRUE, alive |-> TRUE, rkm_partition |-> p, rkm_flags |-> f,
    arg_flags |-> msgflags, rkm_key |-> k, rkm_ts_timeout |-> ts,
    payload_frees |-> 0, key_frees |-> 0, rkm_frees |-> 0, slot_releases |-> 0] :
     p \in GarbagePartitions, f \in FlagSets, k \in BOOLEAN,
     ts \in GarbageTimeouts(now)}

\* lines 38-50: what rd_kafka_msg_destroy does to the record and its buffers
\* (the fields of a freed record are gone; the counters of frees remain)
rd_kafka_msg_destroy(m) ==
  [m EXCEPT !.alive = FALSE,
            !.rkm_partition = RD_KAFKA_PARTITION_UA,
            !.rkm_ts_timeout = 0,
            !.slot_releases = @ + 1,
            !.payload_frees = @ + (IF RD_KAFKA_MSG_F_FREE \in m.rkm_flags THEN 1 ELSE 0),
            !.key_frees = @ + (IF m.rkm_key THEN 1 ELSE 0),
            !.rkm_frees = @ + 1]

(* ------------------------------- routing ------------------------------- *)
\* lines 191-193: the metadata can be trusted
MetadataFresh(now) ==
  now < rkt_ts_metadata + (metadata_refresh_interval_ms * 3 * 1000)

\* mutant of FastFail: the forced partition is compared with > instead of >=
FastFail_StrictGreater(m, now) ==
  /\ \/ rkt_state = RD_KAFKA_TOPIC_S_UNKNOWN
     \/ /\ m.rkm_partition # RD_KAFKA_PARTITION_UA
        /\ m.rkm_partition > rkt_partition_cnt
  /\ MetadataFresh(now)

\* lines 188-193: the fast-fail guard
FastFail(m, now) ==
  /\ \/ rkt_state = RD_KAFKA_TOPIC_S_UNKNOWN
     \/ /\ m.rkm_partition # RD_KAFKA_PARTITION_UA
        /\ m.rkm_partition >= rkt_partition_cnt
  /\ MetadataFresh(now)

\* mutant of FastFailErr: the error is chosen by topic state, as on lines 247-250
FastFailErr_ByState ==
  IF rkt_state = RD_KAFKA_TOPIC_S_UNKNOWN
    THEN RD_KAFKA_RESP_ERR__UNKNOWN_TOPIC
    ELSE RD_KAFKA_RESP_ERR__UNKNOWN_PARTITION

\* lines 194-197
FastFailErr ==
  IF rkt_partition_cnt = 0
    THEN RD_KAFKA_RESP_ERR__UNKNOWN_TOPIC
    ELSE RD_KAFKA_RESP_ERR__UNKNOWN_PARTITION

\* lines 204-216: cb is the value the configured partitioner returns if called
ChosenPartition(m, cb) ==
  IF rkt_partition_cnt = 0 THEN RD_KAFKA_PARTITION_UA
  ELSE IF m.rkm_partition = RD_KAFKA_PARTITION_UA THEN cb
  ELSE m.rkm_partition

\* mutant of PartitionerInvoked: the callback is called for forced partitions too
PartitionerInvoked_AnyMessage(m) == rkt_partition_cnt # 0

\* lines 204-214: the partitioner callback is invoked
PartitionerInvoked(m) ==
  rkt_partition_cnt # 0 /\ m.rkm_partition = RD_KAFKA_PARTITION_UA

\* mutant of FinalPartition: an out-of-range partition is not demoted
FinalPartition_NoDemotion(partition) == partition

\* lines 218-230: demotion to the unassigned partition
FinalPartition(partition) ==
  IF partition >= rkt_partition_cnt THEN RD_KAFKA_PARTITION_UA ELSE partition

\* lines 247-250
NoRefErr ==
  IF rkt_state = RD_KAFKA_TOPIC_S_UNKNOWN
    THEN RD_KAFKA_RESP_ERR__UNKNOWN_TOPIC
    ELSE RD_KAFKA_RESP_ERR__UNKNOWN_PARTITION

\* lines 173-264: result of rd_kafka_msg_partitioner for message m at time now
rd_kafka_msg_partitioner(m, now, cb) ==
  IF FastFail(m, now)
    THEN [err |-> FastFailErr, partition |-> RD_KAFKA_PARTITION_UA,
          path |-> "fastfail", pcalls |-> 0]
    ELSE LET partition == FinalPartition(ChosenPartition(m, cb))
             pcalls == IF PartitionerInvoked(m) THEN 1 ELSE 0
         IN IF ~rd_kafka_toppar_get(partition)
              THEN [err |-> NoRefErr, partition |-> partition,
                    path |-> "noref", pcalls |-> pcalls]
              ELSE [err |-> RD_KAFKA_RESP_ERR_NO_ERROR, partition |-> partition,
                    path |-> "enq", pcalls |-> pcalls]

\* lines 179-180: the read lock is taken if do_lock is set
PartitionerLock(held, who, do_lock) ==
  IF do_lock THEN held \cup {who} ELSE held

\* mutant of PartitionerUnlock: the lock is released whatever do_lock says
PartitionerUnlock_Always(held, who, do_lock) == held \ {who}

\* lines 199-200, 252-253, 260-261: the read lock is released if do_lock is set
PartitionerUnlock(held, who, do_lock) ==
  IF do_lock THEN held \ {who} ELSE held

\* number of lock (or unlock) operations one call makes on one path
LockCalls(do_lock) == IF do_lock THEN 1 ELSE 0

\* mutant of ErrnoOf: the UNKNOWN_TOPIC case is missing
ErrnoOf_NoTopicCase(err) ==
  IF err = RD_KAFKA_RESP_ERR__UNKNOWN_PARTITION THEN "ESRCH" ELSE "EINVAL"

\* lines 117-123: error code to errno
ErrnoOf(err) ==
  IF err = RD_KAFKA_RESP_ERR__UNKNOWN_PARTITION THEN "ESRCH"
  ELSE IF err = RD_KAFKA_RESP_ERR__UNKNOWN_TOPIC THEN "ENOENT"
  ELSE "EINVAL"

\* mutant of DestroySlot: the decrement is forgotten
DestroySlot_Skip(cnt) == cnt

\* lines 40-41: rd_kafka_msg_destroy releases one admission slot
DestroySlot(cnt) == rd_atomic_sub(cnt, 1)

\* line 67: the size check; len and keylen are size_t, so the sum wraps
\* around at SIZE_MAX + 1
MessageTooLarge(len, keylen) ==
  SizeGreater(SizeAdd(len, keylen), SizeT(max_msg_size))

\* sizeof(*rkm) on a 64-bit build
SizeofMsg == SizeT(72)

\* lines 64, 80-83: the size passed to malloc
AllocSize(msgflags, len) ==
  IF RD_KAFKA_MSG_F_COPY \in msgflags THEN SizeAdd(SizeofMsg, len) ELSE SizeofMsg

\* line 87: what malloc(mlen) can return: TRUE for a block, FALSE for NULL.
\* It can fail for any size, and fails for a size no block can have.
MallocResults(mlen) ==
  IF SizeGreater(mlen, PTRDIFF_MAX) THEN {FALSE} ELSE {TRUE, FALSE}

\* lines 82-99: the block holds the record and the copy of the payload, that
\* is, mlen did not wrap at line 82
BuildDefined(msgflags, len) ==
  RD_KAFKA_MSG_F_COPY \in msgflags => ~SizeAddWraps(SizeofMsg, len)

\* mutant of AdmissionExceeded: the ceiling is tested off by one
AdmissionExceeded_OffByOne(cnt) == cnt > queue_buffering_max_msgs + 1

\* lines 72-73: the admission check on the value returned by the increment
AdmissionExceeded(cnt) == cnt > queue_buffering_max_msgs

(* ------------------------------- Init ---------------------------------- *)
NoScan ==
  [done |-> FALSE, p |-> RD_KAFKA_PARTITION_UA, now |-> 0, ret |-> 0,
   repeat |-> FALSE, dirty |-> FALSE,
   q_before |-> EmptyMsgq, t_before |-> EmptyMsgq,
   q_after |-> EmptyMsgq, t_after |-> EmptyMsgq]

Init ==
  /\ msg_cnt = 0
  /\ clock = StartClock
  /\ rkt_state = RD_KAFKA_TOPIC_S_UNKNOWN
  /\ rkt_partition_cnt = 0
  /\ rkt_ts_metadata = 0
  /\ rkt_refs = {RD_KAFKA_PARTITION_UA}
  /\ rdlock = {}
  /\ queues = [p \in Partitions |-> EmptyMsgq]
  /\ timedout = EmptyMsgq
  /\ msgs = [i \in MsgIds |-> FreeMsg]
  /\ ncalls = 0
  /\ nmsgs = 0
  /\ pc = [t \in Threads |-> "idle"]
  /\ call = [t \in Threads |-> IdleCall]
  /\ last_scan = NoScan
  /\ workload \in Workloads
  /\ batch = IdleBatch
  /\ proc = "running"

(* ------------------------- rd_kafka_msg_new ---------------------------- *)
\* lines 58-70: entry and size check
Call(t) ==
  /\ proc # "crashed"
  /\ t \in ProducerThreads
  /\ pc[t] \in {"idle", "done"}
  /\ ncalls < CallBudget
  /\ ncalls' = ncalls + 1
  /\ \E args \in LenArgs :
       LET len == args[1]
           keylen == args[2]
       IN
       IF MessageTooLarge(len, keylen)
         THEN /\ call' = [call EXCEPT ![t] = [IdleCall EXCEPT !.len = len,
                            !.keylen = keylen, !.ret = -1, !.errno = "EMSGSIZE"]]
              /\ pc' = [pc EXCEPT ![t] = "done"]
         ELSE /\ call' = [call EXCEPT ![t] = [IdleCall EXCEPT !.len = len,
                            !.keylen = keylen]]
              /\ pc' = [pc EXCEPT ![t] = "admit"]
  /\ UNCHANGED <<msg_cnt, clock, topicVars, rdlock, queues, timedout, msgs,
                 nmsgs, last_scan, workload, batch, proc>>

\* mutant of Admit: the value before the increment is tested
Admit_OldValue(t) ==
  /\ proc # "crashed"
  /\ pc[t] = "admit"
  /\ msg_cnt' = rd_atomic_add(msg_cnt, 1)
  /\ call' = [call EXCEPT ![t].added = msg_cnt, ![t].adds = @ + 1]
  /\ pc' = [pc EXCEPT ![t] = IF AdmissionExceeded(msg_cnt) THEN "rollback" ELSE "build"]
  /\ UNCHANGED <<clock, topicVars, rdlock, queues, timedout, msgs, ncalls,
                 nmsgs, last_scan, workload, batch, proc>>

\* lines 72-73: atomic increment and test of its result
Admit(t) ==
  /\ proc # "crashed"
  /\ pc[t] = "admit"
  /\ msg_cnt' = rd_atomic_add(msg_cnt, 1)
  /\ call' = [call EXCEPT ![t].added = msg_cnt', ![t].adds = @ + 1]
  /\ pc' = [pc EXCEPT ![t] = IF AdmissionExceeded(msg_cnt') THEN "rollback" ELSE "build"]
  /\ UNCHANGED <<clock, topicVars, rdlock, queues, timedout, msgs, ncalls,
                 nmsgs, last_scan, workload, batch, proc>>

\* mutant of Rollback: the increment is not taken back
Rollback_NoSub(t) ==
  /\ proc # "crashed"
  /\ pc[t] = "rollback"
  /\ msg_cnt' = msg_cnt
  /\ call' = [call EXCEPT ![t].ret = -1, ![t].errno = "ENOBUFS"]
  /\ pc' = [pc EXCEPT ![t] = "done"]
  /\ UNCHANGED <<clock, topicVars, rdlock, queues, timedout, msgs, ncalls,
                 nmsgs, last_scan, workload, batch, proc>>

\* lines 74-76: undo the increment and fail with ENOBUFS
Rollback(t) ==
  /\ proc # "crashed"
  /\ pc[t] = "rollback"
  /\ msg_cnt' = rd_atomic_sub(msg_cnt, 1)
  /\ call' = [call EXCEPT ![t].subs = @ + 1, ![t].ret = -1, ![t].errno = "ENOBUFS"]
  /\ pc' = [pc EXCEPT ![t] = "done"]
  /\ UNCHANGED <<clock, topicVars, rdlock, queues, timedout, msgs, ncalls,
                 nmsgs, last_scan, workload, batch, proc>>

\* lines 79-104: allocate and fill in the message
\* malloc is not checked: when it returns NULL, line 88 writes through NULL
\* and the process dies.  With F_COPY and a length that makes mlen wrap at
\* line 82 the block is shorter than the record and the payload, and lines
\* 88-99 overrun it: the process dies there, or goes on with a record whose
\* fields are overwritten and a corrupted heap.
Build(t) ==
  /\ proc # "crashed"
  /\ pc[t] = "build"
  /\ \E force_partition \in PartitionArgs, msgflags \in FlagArgs :
       \E block \in MallocResults(AllocSize(msgflags, call[t].len)) :
         \/ /\ block
            /\ \E m \in (IF BuildDefined(msgflags, call[t].len)
                           THEN {NewMsg(force_partition, msgflags, clock)}
                           ELSE GarbageMsgs(msgflags, clock)) :
                 msgs' = [msgs EXCEPT ![nmsgs + 1] = m]
            /\ nmsgs' = nmsgs + 1
            /\ call' = [call EXCEPT ![t].rkm = nmsgs + 1]
            /\ pc' = [pc EXCEPT ![t] = "route"]
            /\ proc' = IF BuildDefined(msgflags, call[t].len) THEN proc ELSE "corrupt"
         \/ /\ ~block \/ ~BuildDefined(msgflags, call[t].len)
            /\ proc' = "crashed"
            /\ UNCHANGED <<msgs, nmsgs, call, pc>>
  /\ UNCHANGED <<msg_cnt, clock, topicVars, rdlock, queues, timedout, ncalls,
                 last_scan, workload, batch>>

\* lines 107, 179-180: rd_kafka_msg_partitioner(rkt, rkm, 1) takes the read lock
RouteLock(t) ==
  /\ proc # "crashed"
  /\ pc[t] = "route"
  /\ rdlock' = PartitionerLock(rdlock, t, TRUE)
  /\ call' = [call EXCEPT ![t].rdlocks = @ + LockCalls(TRUE)]
  /\ pc' = [pc EXCEPT ![t] = "locked"]
  /\ UNCHANGED <<msg_cnt, clock, topicVars, queues, timedout, msgs, ncalls,
                 nmsgs, last_scan, workload, batch, proc>>

\* lines 182-264 and 108-109: route under the read lock, unlock, return
RouteBody(t) ==
  /\ proc # "crashed"
  /\ pc[t] = "locked"
  /\ \E cb \in 0..rkt_partition_cnt :
       LET r == rd_kafka_msg_partitioner(msgs[call[t].rkm], clock, cb) IN
         /\ call' = [call EXCEPT ![t].err = r.err, ![t].path = r.path,
                                 ![t].pcalls = r.pcalls,
                                 ![t].unlocks = @ + LockCalls(TRUE)]
         /\ IF r.err = RD_KAFKA_RESP_ERR_NO_ERROR
              THEN /\ queues' = [queues EXCEPT ![r.partition] =
                                   rd_kafka_toppar_enq_msg(@, call[t].rkm)]
                   /\ last_scan' = [last_scan EXCEPT !.dirty = TRUE]
                   /\ pc' = [pc EXCEPT ![t] = "done"]
              ELSE /\ queues' = queues
                   /\ last_scan' = last_scan
                   /\ pc' = [pc EXCEPT ![t] = "fail"]
  /\ rdlock' = PartitionerUnlock(rdlock, t, TRUE)
  /\ UNCHANGED <<msg_cnt, clock, topicVars, timedout, msgs, ncalls, nmsgs,
                 workload, batch, proc>>

\* lines 111-125: destroy the message, translate the error, return -1
Fail(t) ==
  /\ proc # "crashed"
  /\ pc[t] = "fail"
  /\ msg_cnt' = DestroySlot(msg_cnt)
  /\ msgs' = [msgs EXCEPT ![call[t].rkm] = rd_kafka_msg_destroy(@)]
  /\ call' = [call EXCEPT ![t].subs = @ + 1, ![t].ret = -1,
                          ![t].errno = ErrnoOf(call[t].err)]
  /\ pc' = [pc EXCEPT ![t] = "done"]
  /\ UNCHANGED <<clock, topicVars, rdlock, queues, timedout, ncalls, nmsgs,
                 last_scan, workload, batch, proc>>

(* ----------------------------- environment ----------------------------- *)
\* rd_clock() advances
Tick ==
  /\ proc # "crashed"
  /\ clock + TickUs <= MaxClock
  /\ clock' = clock + TickUs
  /\ UNCHANGED <<msg_cnt, topicVars, rdlock, queues, timedout, msgs, ncalls,
                 nmsgs, pc, call, last_scan, workload, batch, proc>>

\* the metadata refresher updates the topic under the write lock
MetadataRefresh ==
  /\ proc # "crashed"
  /\ rdlock = {}
  /\ \E st \in {RD_KAFKA_TOPIC_S_UNKNOWN, RD_KAFKA_TOPIC_S_EXISTS},
        cnt \in 0..MaxPart :
       /\ rkt_state' = st
       /\ rkt_partition_cnt' = cnt
       /\ \E refs \in SUBSET ({RD_KAFKA_PARTITION_UA} \cup (0..(cnt - 1))) :
            rkt_refs' = refs
  /\ rkt_ts_metadata' = clock
  /\ UNCHANGED <<msg_cnt, clock, rdlock, queues, timedout, msgs, ncalls,
                 nmsgs, pc, call, last_scan, workload, batch, proc>>

\* the broker thread takes the head of a partition queue, transmits it and
\* calls rd_kafka_msg_destroy
BrokerDeliver(p) ==
  /\ proc # "crashed"
  /\ queues[p].rkmq_msgs # <<>>
  /\ queues' = [queues EXCEPT ![p] = rd_kafka_msgq_deq(@, Head(@.rkmq_msgs), TRUE)]
  /\ msg_cnt' = DestroySlot(msg_cnt)
  /\ msgs' = [msgs EXCEPT ![Head(queues[p].rkmq_msgs)] = rd_kafka_msg_destroy(@)]
  /\ last_scan' = [last_scan EXCEPT !.dirty = TRUE]
  /\ UNCHANGED <<clock, topicVars, rdlock, timedout, ncalls, nmsgs, pc, call,
                 workload, batch, proc>>

\* the batch caller takes the topic read lock once for several messages
BatchLock ==
  /\ proc # "crashed"
  /\ workload = "batch"
  /\ batch.pc = "idle"
  /\ rdlock' = rdlock \cup {BatchCaller}
  /\ batch' = [IdleBatch EXCEPT !.pc = "held"]
  /\ UNCHANGED <<msg_cnt, clock, topicVars, queues, timedout, msgs, ncalls,
                 nmsgs, pc, call, last_scan, workload, proc>>

\* under its lock the batch caller takes the head of the unassigned queue and
\* calls rd_kafka_msg_partitioner(rkt, rkm, 0); a message that cannot be
\* routed is destroyed
BatchRoute ==
  /\ proc # "crashed"
  /\ batch.pc = "held"
  /\ queues[RD_KAFKA_PARTITION_UA].rkmq_msgs # <<>>
  /\ \E cb \in 0..rkt_partition_cnt :
       LET id == Head(queues[RD_KAFKA_PARTITION_UA].rkmq_msgs)
           r == rd_kafka_msg_partitioner(msgs[id], clock, cb)
           deq == [queues EXCEPT ![RD_KAFKA_PARTITION_UA] =
                     rd_kafka_msgq_deq(@, id, TRUE)]
       IN IF r.err = RD_KAFKA_RESP_ERR_NO_ERROR
            THEN /\ queues' = [deq EXCEPT ![r.partition] =
                                 rd_kafka_toppar_enq_msg(@, id)]
                 /\ UNCHANGED <<msg_cnt, msgs>>
            ELSE /\ queues' = deq
                 /\ msg_cnt' = DestroySlot(msg_cnt)
                 /\ msgs' = [msgs EXCEPT ![id] = rd_kafka_msg_destroy(@)]
  /\ rdlock' = PartitionerUnlock(PartitionerLock(rdlock, BatchCaller, FALSE),
                                 BatchCaller, FALSE)
  /\ batch' = [batch EXCEPT !.routed = TRUE,
                            !.rdlocks = @ + LockCalls(FALSE),
                            !.unlocks = @ + LockCalls(FALSE)]
  /\ last_scan' = [last_scan EXCEPT !.dirty = TRUE]
  /\ UNCHANGED <<clock, topicVars, timedout, ncalls, nmsgs, pc, call,
                 workload, proc>>

\* the batch caller releases the topic read lock
BatchUnlock ==
  /\ proc # "crashed"
  /\ batch.pc = "held"
  /\ rdlock' = rdlock \ {BatchCaller}
  /\ batch' = [batch EXCEPT !.pc = "idle"]
  /\ UNCHANGED <<msg_cnt, clock, topicVars, queues, timedout, msgs, ncalls,
                 nmsgs, pc, call, last_scan, workload, proc>>

(* ----------------------- rd_kafka_msgq_age_scan ------------------------ *)
\* mutant of AgeScanStop: the comparison is inverted
AgeScanStop_Inverted(ts_timeout, now) == ts_timeout < now

\* mutant of AgeScanStop: a message whose deadline is now is not yet expired
AgeScanStop_AtDeadline(ts_timeout, now) == ts_timeout >= now

\* line 142: the scan stops at a message whose deadline is in the future
AgeScanStop(ts_timeout, now) == ts_timeout > now

\* mutant of AgeScanLoop: the scan skips an unexpired message (continue)
\* instead of stopping at it (break)
RECURSIVE AgeScanLoop_Continue(_, _, _, _)
AgeScanLoop_Continue(rest, rkmq, tq, now) ==
  IF rest = <<>> THEN [rkmq |-> rkmq, timedout |-> tq]
  ELSE IF AgeScanStop(msgs[Head(rest)].rkm_ts_timeout, now)
    THEN AgeScanLoop_Continue(Tail(rest), rkmq, tq, now)
    ELSE AgeScanLoop_Continue(Tail(rest),
                              rd_kafka_msgq_deq(rkmq, Head(rest), TRUE),
                              rd_kafka_msgq_enq(tq, Head(rest)),
                              now)

\* mutant of AgeScanLoop: rd_kafka_msgq_deq is called with do_count = 0
RECURSIVE AgeScanLoop_NoCount(_, _, _, _)
AgeScanLoop_NoCount(rest, rkmq, tq, now) ==
  IF rest = <<>> THEN [rkmq |-> rkmq, timedout |-> tq]
  ELSE IF AgeScanStop(msgs[Head(rest)].rkm_ts_timeout, now)
    THEN [rkmq |-> rkmq, timedout |-> tq]
    ELSE AgeScanLoop_NoCount(Tail(rest),
                             rd_kafka_msgq_deq(rkmq, Head(rest), FALSE),
                             rd_kafka_msgq_enq(tq, Head(rest)),
                             now)

\* lines 141-147: TAILQ_FOREACH_SAFE from the head, stop at the first message
\* whose deadline is in the future
RECURSIVE AgeScanLoop(_, _, _, _)
AgeScanLoop(rest, rkmq, tq, now) ==
  IF rest = <<>> THEN [rkmq |-> rkmq, timedout |-> tq]
  ELSE IF AgeScanStop(msgs[Head(rest)].rkm_ts_timeout, now)
    THEN [rkmq |-> rkmq, timedout |-> tq]
    ELSE AgeScanLoop(Tail(rest),
                     rd_kafka_msgq_deq(rkmq, Head(rest), TRUE),
                     rd_kafka_msgq_enq(tq, Head(rest)),
                     now)

\* mutant of AgeScanReturn: the size of the timed-out queue is returned
AgeScanReturn_Total(tq_after, cnt) == tq_after.rkmq_msg_cnt

\* line 149: the value returned
AgeScanReturn(tq_after, cnt) == tq_after.rkmq_msg_cnt - cnt

\* lines 134-150
rd_kafka_msgq_age_scan(rkmq, tq, now) ==
  LET cnt == tq.rkmq_msg_cnt
      r == AgeScanLoop(rkmq.rkmq_msgs, rkmq, tq, now)
  IN [rkmq |-> r.rkmq, timedout |-> r.timedout,
      ret |-> AgeScanReturn(r.timedout, cnt)]

\* the deadlines and sweep times of the scan application: a grid of
\* message_timeout_ms steps starting at StartClock
ScanTickUs == message_timeout_ms * 1000
ScanMaxClock == StartClock + (MaxTicks + 1) * ScanTickUs
ScanDeadlines == {StartClock + k * ScanTickUs : k \in 0..(MaxTicks + 1)}

\* a queue of n messages with any deadlines, to be swept into an empty
\* timed-out queue
InitScan ==
  /\ msg_cnt = 0
  /\ clock = StartClock
  /\ rkt_state = RD_KAFKA_TOPIC_S_UNKNOWN
  /\ rkt_partition_cnt = 0
  /\ rkt_ts_metadata = 0
  /\ rkt_refs = {RD_KAFKA_PARTITION_UA}
  /\ rdlock = {}
  /\ timedout = EmptyMsgq
  /\ ncalls = 0
  /\ pc = [t \in Threads |-> "idle"]
  /\ call = [t \in Threads |-> IdleCall]
  /\ last_scan = NoScan
  /\ workload = "scan"
  /\ batch = IdleBatch
  /\ proc = "running"
  /\ nmsgs \in 0..(MaxCalls + 1)
  /\ \E d \in [MsgIds -> ScanDeadlines] :
       msgs = [i \in MsgIds |->
                 IF i <= nmsgs
                   THEN NewMsg(RD_KAFKA_PARTITION_UA, {}, d[i] - message_timeout_ms * 1000)
                   ELSE FreeMsg]
  /\ queues = [p \in Partitions |->
                 IF p = RD_KAFKA_PARTITION_UA
                   THEN [rkmq_msgs |-> [i \in 1..nmsgs |-> i], rkmq_msg_cnt |-> nmsgs]
                   ELSE EmptyMsgq]

\* the sweep time advances
ScanTick ==
  /\ clock + ScanTickUs <= ScanMaxClock
  /\ clock' = clock + ScanTickUs
  /\ UNCHANGED <<msg_cnt, topicVars, rdlock, queues, timedout, msgs, ncalls,
                 nmsgs, pc, call, last_scan, workload, batch, proc>>

\* a message with any deadline is appended to the queue of partition p
ScanEnq(p) ==
  /\ nmsgs < MaxCalls + 1
  /\ nmsgs' = nmsgs + 1
  /\ \E d \in ScanDeadlines :
       msgs' = [msgs EXCEPT ![nmsgs + 1] =
                  NewMsg(p, {}, d - message_timeout_ms * 1000)]
  /\ queues' = [queues EXCEPT ![p] = rd_kafka_msgq_enq(@, nmsgs + 1)]
  /\ last_scan' = [last_scan EXCEPT !.dirty = TRUE]
  /\ UNCHANGED <<msg_cnt, clock, topicVars, rdlock, timedout, ncalls, pc,
                 call, workload, batch, proc>>

\* the broker thread takes the head of the queue of partition p for transmission
ScanDeq(p) ==
  /\ queues[p].rkmq_msgs # <<>>
  /\ queues' = [queues EXCEPT ![p] = rd_kafka_msgq_deq(@, Head(@.rkmq_msgs), TRUE)]
  /\ last_scan' = [last_scan EXCEPT !.dirty = TRUE]
  /\ UNCHANGED <<msg_cnt, clock, topicVars, rdlock, timedout, msgs, ncalls,
                 nmsgs, pc, call, workload, batch, proc>>

\* the sweeper calls rd_kafka_msgq_age_scan(&rktp->rktp_msgq, &timedout, rd_clock())
AgeScan(p) ==
  LET r == rd_kafka_msgq_age_scan(queues[p], timedout, clock) IN
    /\ proc # "crashed"
    /\ queues' = [queues EXCEPT ![p] = r.rkmq]
    /\ timedout' = r.timedout
    /\ last_scan' =
         [done |-> TRUE, p |-> p, now |-> clock, ret |-> r.ret,
          repeat |-> last_scan.done /\ last_scan.p = p /\ last_scan.now = clock
                     /\ ~last_scan.dirty,
          dirty |-> FALSE,
          q_before |-> queues[p], t_before |-> timedout,
          q_after |-> r.rkmq, t_after |-> r.timedout]
    /\ UNCHANGED <<msg_cnt, clock, topicVars, rdlock, msgs, ncalls, nmsgs, pc,
                   call, workload, batch, proc>>

NextScan ==
  \/ ScanTick
  \/ \E p \in Partitions : ScanEnq(p)
  \/ \E p \in Partitions : ScanDeq(p)
  \/ \E p \in Partitions : AgeScan(p)

SpecScan == InitScan /\ [][NextScan]_vars

\* the sweeper alone: the sweep time keeps advancing and every queue keeps
\* being scanned; nothing else removes messages
NextSweep ==
  \/ ScanTick
  \/ \E p \in Partitions : AgeScan(p)

SpecSweep ==
  /\ InitScan
  /\ [][NextSweep]_vars
  /\ WF_vars(ScanTick)
  /\ \A p \in Partitions : WF_vars(AgeScan(p))

(* ------------------ producers, brokers and the sweeper ----------------- *)
\* after a heap overrun the process can die at any later step (glibc aborts
\* on the corrupted heap)
Abort ==
  /\ proc = "corrupt"
  /\ proc' = "crashed"
  /\ UNCHANGED <<msg_cnt, clock, topicVars, rdlock, queues, timedout, msgs,
                 ncalls, nmsgs, pc, call, last_scan, workload, batch>>

Next ==
  \/ \E t \in Threads : Call(t)
  \/ \E t \in Threads : Admit(t)
  \/ \E t \in Threads : Rollback(t)
  \/ \E t \in Threads : Build(t)
  \/ \E t \in Threads : RouteLock(t)
  \/ \E t \in Threads : RouteBody(t)
  \/ \E t \in Threads : Fail(t)
  \/ Tick
  \/ MetadataRefresh
  \/ \E p \in Partitions : BrokerDeliver(p)
  \/ BatchLock
  \/ BatchRoute
  \/ BatchUnlock
  \/ Abort
  \/ \E p \in SweptPartitions : AgeScan(p)

Spec == Init /\ [][Next]_vars

(* ------------------------------ properties ----------------------------- *)
RollingBack == {t \in Threads : pc[t] = "rollback"}

Returned(t) == pc[t] = "done"

Quiescent == \A t \in Threads : pc[t] \in {"idle", "done"}

LiveMsgs == {i \in MsgIds : msgs[i].alive}

InSeq(id, q) == \E k \in 1..Len(q) : q[k] = id

Linked(id) ==
  \/ \E p \in Partitions : InSeq(id, queues[p].rkmq_msgs)
  \/ InSeq(id, timedout.rkmq_msgs)

\* the claims' reading of "the metadata is fresh"
Fresh == clock < rkt_ts_metadata + 3 * (metadata_refresh_interval_ms * 1000)

\* thread t leaves rd_kafka_msg_partitioner in this step
Routes(t) == pc[t] = "locked" /\ pc'[t] # "locked"

Forced(m) == m.rkm_partition # RD_KAFKA_PARTITION_UA

\* C1 as stated: in every reachable state, intermediate states of
\* rd_kafka_msg_new included, msg_cnt <= queue_buffering_max_msgs.
C1_CounterNeverAboveCeiling == msg_cnt <= queue_buffering_max_msgs

\* C1 amended: msg_cnt exceeds queue_buffering_max_msgs by at most the number
\* of rejected calls that have incremented it and not yet taken the increment
\* back; with no such call in progress msg_cnt <= queue_buffering_max_msgs.
C1_CounterBoundedByCeilingPlusRejects ==
  msg_cnt <= queue_buffering_max_msgs + Cardinality(RollingBack)

C1_Witness ==
  /\ RollingBack # {}
  /\ msg_cnt = queue_buffering_max_msgs + Cardinality(RollingBack)

\* C2: a call whose increment took msg_cnt above queue_buffering_max_msgs
\* returns -1 with ENOBUFS, has no message, ran no routing, and has taken
\* back exactly the one slot it took (net change of the counter: zero).
C2_QueueFullTakesNoSlot ==
  \A t \in Threads :
    /\ call[t].added > queue_buffering_max_msgs =>
         /\ pc[t] \in {"rollback", "done"}
         /\ call[t].rkm = NoMsg
         /\ call[t].path = "none"
         /\ Returned(t) =>
              /\ call[t].ret = -1
              /\ call[t].errno = "ENOBUFS"
              /\ call[t].adds = 1
              /\ call[t].subs = 1
    /\ call[t].errno = "ENOBUFS" => call[t].added > queue_buffering_max_msgs

C2_Witness ==
  \E t \in Threads :
    /\ Returned(t)
    /\ call[t].errno = "ENOBUFS"
    /\ call[t].added = queue_buffering_max_msgs + 1
    /\ msg_cnt = queue_buffering_max_msgs

\* the sum of the two lengths, as a number, is greater than limit
SumExceeds(len, keylen, limit) ==
  SizeAddWraps(len, keylen) \/ SizeGreater(SizeAdd(len, keylen), SizeT(limit))

\* C3 as stated: for every len and keylen whose sum exceeds max_msg_size, the
\* call returns -1 with EMSGSIZE, has never touched msg_cnt, has no message
\* and ran no routing, whatever the value of the counter.
C3_TooLargeBeforeAdmission ==
  \A t \in Threads :
    (pc[t] # "idle" /\ SumExceeds(call[t].len, call[t].keylen, max_msg_size)) =>
      /\ Returned(t)
      /\ call[t].ret = -1
      /\ call[t].errno = "EMSGSIZE"
      /\ call[t].added = 0
      /\ call[t].adds = 0
      /\ call[t].subs = 0
      /\ call[t].rkm = NoMsg
      /\ call[t].path = "none"

\* C4: msg_cnt equals the number of admitted messages not yet destroyed (plus
\* the increments of rejected calls still to be taken back); every destroyed
\* message released exactly one slot; once all calls have returned msg_cnt is
\* the number of live messages, and zero when all of them were destroyed.
C4_CounterCountsLiveMessages ==
  /\ msg_cnt = Cardinality(LiveMsgs)
               + Cardinality({t \in Threads : pc[t] = "build"})
               + Cardinality(RollingBack)
  /\ \A i \in MsgIds :
       (msgs[i].used /\ ~msgs[i].alive) => msgs[i].slot_releases = 1
  /\ \A i \in LiveMsgs : msgs[i].slot_releases = 0
  /\ Quiescent => msg_cnt = Cardinality(LiveMsgs)

C4_Witness ==
  /\ Quiescent
  /\ nmsgs = MaxCalls
  /\ LiveMsgs = {}
  /\ msg_cnt = 0
  /\ \A i \in 1..nmsgs : msgs[i].slot_releases = 1

\* C5: when rd_kafka_msg_new has returned a routing error, its message is
\* linked in no queue, its slot was released exactly once, the record and the
\* key copy were freed exactly once, an owned-transfer payload was freed
\* exactly once and a borrowed payload was not freed.
C5_RoutingFailureReleasesEverything ==
  \A t \in Threads :
    (Returned(t) /\ call[t].errno \in {"ESRCH", "ENOENT", "EINVAL"}) =>
      /\ call[t].ret = -1
      /\ call[t].rkm # NoMsg
      /\ LET m == msgs[call[t].rkm] IN
           /\ ~m.alive
           /\ ~Linked(call[t].rkm)
           /\ m.slot_releases = 1
           /\ call[t].adds = 1
           /\ call[t].subs = 1
           /\ m.rkm_frees = 1
           /\ m.key_frees = 1
           /\ m.arg_flags = {RD_KAFKA_MSG_F_FREE} => m.payload_frees = 1
           /\ m.arg_flags = {} => m.payload_frees = 0

\* C6 as stated: for every partition_count >= 0, routing a message with a
\* forced partition >= partition_count while the metadata is fresh fails with
\* UNKNOWN_PARTITION (errno ESRCH) and enqueues nothing.
C6_ForcedOutOfRangeIsUnknownPartition ==
  [][\A t \in Threads :
       /\ (/\ Routes(t)
           /\ Forced(msgs[call[t].rkm])
           /\ msgs[call[t].rkm].rkm_partition >= rkt_partition_cnt
           /\ Fresh) =>
            /\ call'[t].err = RD_KAFKA_RESP_ERR__UNKNOWN_PARTITION
            /\ pc'[t] = "fail"
            /\ queues' = queues
       /\ (pc[t] = "fail" /\ pc'[t] = "done"
           /\ call[t].err = RD_KAFKA_RESP_ERR__UNKNOWN_PARTITION) =>
            (call'[t].errno = "ESRCH" /\ call'[t].ret = -1)
    ]_vars

\* C6 amended: routing a message with a forced partition >= partition_count
\* while the metadata is fresh fails and enqueues nothing; the error is
\* UNKNOWN_PARTITION (errno ESRCH) when partition_count > 0 and UNKNOWN_TOPIC
\* (errno ENOENT) when partition_count = 0.
C6_ForcedOutOfRangeFailsFast ==
  [][\A t \in Threads :
       /\ (/\ Routes(t)
           /\ Forced(msgs[call[t].rkm])
           /\ msgs[call[t].rkm].rkm_partition >= rkt_partition_cnt
           /\ Fresh) =>
            /\ call'[t].err = IF rkt_partition_cnt > 0
                                THEN RD_KAFKA_RESP_ERR__UNKNOWN_PARTITION
                                ELSE RD_KAFKA_RESP_ERR__UNKNOWN_TOPIC
            /\ pc'[t] = "fail"
            /\ queues' = queues
       /\ (pc[t] = "fail" /\ pc'[t] = "done") =>
            /\ call'[t].ret = -1
            /\ call[t].err = RD_KAFKA_RESP_ERR__UNKNOWN_PARTITION =>
                 call'[t].errno = "ESRCH"
            /\ call[t].err = RD_KAFKA_RESP_ERR__UNKNOWN_TOPIC =>
                 call'[t].errno = "ENOENT"
    ]_vars

C6_Witness ==
  \E t \in Threads :
    /\ pc[t] = "fail"
    /\ call[t].path = "fastfail"
    /\ call[t].err = RD_KAFKA_RESP_ERR__UNKNOWN_PARTITION
    /\ Forced(msgs[call[t].rkm])
    /\ msgs[call[t].rkm].rkm_partition >= rkt_partition_cnt
    /\ rkt_partition_cnt > 0
    /\ rkt_state = RD_KAFKA_TOPIC_S_EXISTS
    /\ Fresh
    /\ ~Linked(call[t].rkm)

\* C7: routing a message with a forced partition >= partition_count while the
\* metadata is stale never takes the fast-fail path: if the unassigned
\* partition has a reference the call succeeds and the message is appended to
\* the unassigned queue and to no other; otherwise it fails for want of a
\* reference.
C7_StaleForcedOutOfRangeIsDemoted ==
  [][\A t \in Threads :
       (/\ Routes(t)
        /\ Forced(msgs[call[t].rkm])
        /\ msgs[call[t].rkm].rkm_partition >= rkt_partition_cnt
        /\ ~Fresh) =>
         IF RD_KAFKA_PARTITION_UA \in rkt_refs
           THEN /\ call'[t].err = RD_KAFKA_RESP_ERR_NO_ERROR
                /\ call'[t].ret = 0
                /\ pc'[t] = "done"
                /\ queues'[RD_KAFKA_PARTITION_UA].rkmq_msgs =
                     Append(queues[RD_KAFKA_PARTITION_UA].rkmq_msgs, call[t].rkm)
                /\ \A p \in Partitions \ {RD_KAFKA_PARTITION_UA} :
                     queues'[p] = queues[p]
           ELSE /\ call'[t].err # RD_KAFKA_RESP_ERR_NO_ERROR
                /\ call'[t].path = "noref"
                /\ queues' = queues
    ]_vars

C7_Witness ==
  \E t \in Threads :
    /\ Returned(t)
    /\ call[t].ret = 0
    /\ call[t].path = "enq"
    /\ Forced(msgs[call[t].rkm])
    /\ msgs[call[t].rkm].rkm_partition >= rkt_partition_cnt
    /\ rkt_partition_cnt > 0
    /\ ~Fresh
    /\ InSeq(call[t].rkm, queues[RD_KAFKA_PARTITION_UA].rkmq_msgs)

\* C8: while the topic state is UNKNOWN and the metadata is fresh, routing
\* fails fast for every message without calling the partitioner and without
\* enqueuing, with UNKNOWN_TOPIC when partition_count = 0 and
\* UNKNOWN_PARTITION otherwise; while the metadata is stale routing never
\* takes the fast-fail path.
C8_UnknownTopicFailsFast ==
  [][\A t \in Threads :
       /\ (Routes(t) /\ rkt_state = RD_KAFKA_TOPIC_S_UNKNOWN /\ Fresh) =>
            /\ call'[t].path = "fastfail"
            /\ call'[t].pcalls = 0
            /\ pc'[t] = "fail"
            /\ queues' = queues
            /\ call'[t].err = IF rkt_partition_cnt = 0
                                THEN RD_KAFKA_RESP_ERR__UNKNOWN_TOPIC
                                ELSE RD_KAFKA_RESP_ERR__UNKNOWN_PARTITION
       /\ (Routes(t) /\ ~Fresh) => call'[t].path \in {"noref", "enq"}
    ]_vars

C8_Witness ==
  \E t \in Threads :
    /\ pc[t] = "fail"
    /\ call[t].path = "fastfail"
    /\ call[t].pcalls = 0
    /\ call[t].err = RD_KAFKA_RESP_ERR__UNKNOWN_PARTITION
    /\ ~Forced(msgs[call[t].rkm])
    /\ rkt_state = RD_KAFKA_TOPIC_S_UNKNOWN
    /\ rkt_partition_cnt > 0
    /\ Fresh

Deadline(id) == msgs[id].rkm_ts_timeout

SortedByDeadline(q) ==
  \A i, j \in 1..Len(q) : i < j => Deadline(q[i]) <= Deadline(q[j])

ExpiredOf(q, now) == SelectSeq(q, LAMBDA id : Deadline(id) <= now)

UnexpiredOf(q, now) == SelectSeq(q, LAMBDA id : Deadline(id) > now)

\* C9: on a queue in non-decreasing deadline order, the scan moves exactly the
\* messages with deadline <= now, which form a prefix, to the tail of the
\* timed-out queue in their order and after what was there, leaves the others
\* in place and in order, and returns the number of messages moved.
C9_AgeScanMovesExpiredPrefix ==
  LET qb == last_scan.q_before.rkmq_msgs
      tb == last_scan.t_before.rkmq_msgs
      moved == ExpiredOf(qb, last_scan.now)
      stay == UnexpiredOf(qb, last_scan.now)
  IN (last_scan.done /\ SortedByDeadline(qb)) =>
       /\ qb = moved \o stay
       /\ last_scan.q_after.rkmq_msgs = stay
       /\ last_scan.t_after.rkmq_msgs = tb \o moved
       /\ last_scan.ret = Len(moved)

C9_Witness ==
  LET qb == last_scan.q_before.rkmq_msgs IN
    /\ last_scan.done
    /\ SortedByDeadline(qb)
    /\ last_scan.t_before.rkmq_msgs # <<>>
    /\ last_scan.ret >= 1
    /\ last_scan.ret < Len(qb)
    /\ \E k \in 1..Len(qb) : Deadline(qb[k]) = last_scan.now

\* C10: a scan of the same queue with the same sweep time as the scan before
\* it, with no enqueue in between, moves nothing, returns 0 and leaves the
\* queue and the timed-out queue as they were.
C10_AgeScanIdempotent ==
  last_scan.repeat =>
    /\ last_scan.ret = 0
    /\ last_scan.q_after = last_scan.q_before
    /\ last_scan.t_after = last_scan.t_before

C10_Witness ==
  /\ last_scan.repeat
  /\ last_scan.ret = 0
  /\ last_scan.t_before.rkmq_msgs # <<>>
  /\ last_scan.q_before.rkmq_msgs # <<>>

\* C11: a destroyed message created with F_FREE and without F_COPY had its
\* payload freed exactly once; a destroyed message created in borrow mode or
\* with F_COPY (with or without F_FREE) never had free() called on its
\* payload pointer, and the record holding the private copy was freed once;
\* no payload is freed while its message is alive.
C11_PayloadFreedOnlyWhenOwned ==
  \A i \in MsgIds :
    /\ (msgs[i].used /\ msgs[i].alive) =>
         (msgs[i].payload_frees = 0 /\ msgs[i].rkm_frees = 0)
    /\ (msgs[i].used /\ ~msgs[i].alive) =>
         /\ msgs[i].rkm_frees = 1
         /\ msgs[i].arg_flags = {RD_KAFKA_MSG_F_FREE} => msgs[i].payload_frees = 1
         /\ msgs[i].arg_flags = {} => msgs[i].payload_frees = 0
         /\ RD_KAFKA_MSG_F_COPY \in msgs[i].arg_flags => msgs[i].payload_frees = 0

\* C13: one routing call invokes the partitioner callback at most once, and
\* only for a message whose partition is unassigned, with partition_count > 0
\* and off the fast-fail path.
C13_PartitionerOnlyForUnassigned ==
  [][\A t \in Threads :
       Routes(t) =>
         /\ call'[t].pcalls \in {0, 1}
         /\ call'[t].pcalls = 1 =>
              /\ ~Forced(msgs[call[t].rkm])
              /\ rkt_partition_cnt > 0
              /\ call'[t].path # "fastfail"
         /\ Forced(msgs[call[t].rkm]) => call'[t].pcalls = 0
         /\ rkt_partition_cnt = 0 => call'[t].pcalls = 0
         /\ call'[t].path = "fastfail" => call'[t].pcalls = 0
    ]_vars

C13_Witness ==
  \E t \in Threads :
    /\ Returned(t)
    /\ call[t].pcalls = 1
    /\ call[t].path = "enq"
    /\ ~Forced(msgs[call[t].rkm])
    /\ InSeq(call[t].rkm, queues[0].rkmq_msgs)

\* messages that passed the admission check and were not yet destroyed
InFlight ==
  Cardinality(LiveMsgs) + Cardinality({t \in Threads : pc[t] = "build"})

\* C14: the number of admitted messages in flight never exceeds
\* queue_buffering_max_msgs, also while a rejected call holds the counter
\* above the ceiling.
C14_InFlightNeverAboveCeiling == InFlight <= queue_buffering_max_msgs

C14_Witness ==
  /\ InFlight = queue_buffering_max_msgs
  /\ RollingBack # {}
  /\ msg_cnt > queue_buffering_max_msgs

\* messages are numbered in the order of their enqueue on a partition queue;
\* two messages come from the same partition queue iff rkm_partition agrees
InEnqueueOrder(q) ==
  \A i, j \in 1..Len(q) :
    (i < j /\ msgs[q[i]].rkm_partition = msgs[q[j]].rkm_partition) => q[i] < q[j]

\* C12: in every partition queue and in the timed-out queue, two messages
\* that were enqueued on the same partition queue stand in the order of
\* their enqueue, after any sequence of enqueues, dequeues and scans.
C12_QueuesKeepEnqueueOrder ==
  /\ \A p \in Partitions : InEnqueueOrder(queues[p].rkmq_msgs)
  /\ InEnqueueOrder(timedout.rkmq_msgs)

C12_Witness ==
  /\ last_scan.done
  /\ Len(timedout.rkmq_msgs) >= 2
  /\ last_scan.t_before.rkmq_msgs # <<>>
  /\ last_scan.ret >= 1
  /\ ~SortedByDeadline(last_scan.q_before.rkmq_msgs)
  /\ msgs[timedout.rkmq_msgs[1]].rkm_partition = msgs[timedout.rkmq_msgs[2]].rkm_partition

AllLinked ==
  {i \in MsgIds : \E p \in Partitions : InSeq(i, queues[p].rkmq_msgs)}

\* a message left behind by the last scan although its deadline had passed
Delayed(k) ==
  Deadline(last_scan.q_after.rkmq_msgs[k]) <= last_scan.now

\* C16: with the sweep time advancing and scans recurring, every message in a
\* partition queue is eventually in the timed-out queue, whatever the order of
\* the deadlines; a scan leaves an expired message behind only behind a
\* message whose deadline is still in the future.
C16_ExpiryDelayedNeverLost ==
  /\ \A i \in MsgIds :
       (i \in AllLinked) ~> InSeq(i, timedout.rkmq_msgs)
  /\ [](last_scan.done =>
          \A k \in 1..Len(last_scan.q_after.rkmq_msgs) :
            Delayed(k) =>
              \E j \in 1..(k - 1) :
                Deadline(last_scan.q_after.rkmq_msgs[j]) > last_scan.now)

C16_Witness ==
  /\ last_scan.done
  /\ \E k \in 1..Len(last_scan.q_after.rkmq_msgs) : Delayed(k)
  /\ last_scan.ret >= 1

SeqIds(q) == {q[k] : k \in 1..Len(q)}

\* C17: the running count of every queue is the number of messages linked in
\* it; a scan keeps the sum of the counts of the two queues; no message is
\* linked twice, in one queue or in two.
C17_CountIsNumberLinked ==
  /\ \A p \in Partitions :
       /\ queues[p].rkmq_msg_cnt = Len(queues[p].rkmq_msgs)
       /\ Cardinality(SeqIds(queues[p].rkmq_msgs)) = Len(queues[p].rkmq_msgs)
       /\ SeqIds(queues[p].rkmq_msgs) \cap SeqIds(timedout.rkmq_msgs) = {}
       /\ \A r \in Partitions \ {p} :
            SeqIds(queues[p].rkmq_msgs) \cap SeqIds(queues[r].rkmq_msgs) = {}
  /\ timedout.rkmq_msg_cnt = Len(timedout.rkmq_msgs)
  /\ Cardinality(SeqIds(timedout.rkmq_msgs)) = Len(timedout.rkmq_msgs)
  /\ last_scan.done =>
       /\ last_scan.q_before.rkmq_msg_cnt + last_scan.t_before.rkmq_msg_cnt
            = last_scan.q_after.rkmq_msg_cnt + last_scan.t_after.rkmq_msg_cnt
       /\ last_scan.q_after.rkmq_msg_cnt = Len(last_scan.q_after.rkmq_msgs)
       /\ last_scan.t_after.rkmq_msg_cnt = Len(last_scan.t_after.rkmq_msgs)

C17_Witness ==
  /\ last_scan.done
  /\ last_scan.ret >= 1
  /\ last_scan.q_after.rkmq_msg_cnt >= 1
  /\ last_scan.t_before.rkmq_msg_cnt >= 1
  /\ timedout.rkmq_msg_cnt = Len(timedout.rkmq_msgs)

\* C15 as stated: a partition queue that receives only messages freshly
\* created by rd_kafka_msg_new holds them in non-decreasing rkm_ts_timeout
\* order in every reachable state, also when produce calls run concurrently.
\* (The batch caller re-routes old messages, so its application is left out.)
C15_PartitionQueuesSortedByDeadline ==
  workload # "batch" =>
    \A p \in Partitions \ {RD_KAFKA_PARTITION_UA} :
      SortedByDeadline(queues[p].rkmq_msgs)

LinkedNext(id) == \E p \in Partitions : InSeq(id, queues'[p].rkmq_msgs)

RoutingErrors ==
  {RD_KAFKA_RESP_ERR__UNKNOWN_TOPIC, RD_KAFKA_RESP_ERR__UNKNOWN_PARTITION}

\* C18: rd_kafka_msg_partitioner returns 0, UNKNOWN_TOPIC or
\* UNKNOWN_PARTITION and nothing else; the message is on a partition queue
\* when it returns iff it returns 0; rd_kafka_msg_new never sets errno EINVAL.
C18_PartitionerReturnsThreeCodes ==
  [][\A t \in Threads :
       /\ Routes(t) =>
            /\ call'[t].err \in RoutingErrors \cup {RD_KAFKA_RESP_ERR_NO_ERROR}
            /\ ~Linked(call[t].rkm)
            /\ LinkedNext(call[t].rkm) <=>
                 call'[t].err = RD_KAFKA_RESP_ERR_NO_ERROR
            /\ pc'[t] = "fail" <=> call'[t].err \in RoutingErrors
       /\ (pc[t] = "fail" /\ pc'[t] = "done") =>
            /\ call'[t].errno \in {"ESRCH", "ENOENT"}
            /\ call'[t].errno = "ENOENT" <=>
                 call[t].err = RD_KAFKA_RESP_ERR__UNKNOWN_TOPIC
    ]_vars

C18_Witness ==
  \E t \in Threads :
    /\ Returned(t)
    /\ call[t].path = "noref"
    /\ call[t].err = RD_KAFKA_RESP_ERR__UNKNOWN_TOPIC
    /\ call[t].errno = "ENOENT"
    /\ call[t].ret = -1
    /\ ~Linked(call[t].rkm)

\* C19 as stated: the routing step of rd_kafka_msg_new fails only for a
\* message with a forced partition; a call with RD_KAFKA_PARTITION_UA never
\* reaches the failure branch of lines 110-125.
C19_RoutingFailsOnlyForForced ==
  \A t \in Threads : pc[t] = "fail" => Forced(msgs[call[t].rkm])

\* C20: a thread holds the topic read lock exactly while it is inside
\* rd_kafka_msg_partitioner(rkt, rkm, 1), having locked once; when the call
\* has returned, by any of its three paths, it has locked once and unlocked
\* once and holds nothing.  rd_kafka_msg_partitioner(rkt, rkm, 0) does no lock
\* operation: the batch caller still holds its lock after it.  The topic
\* fields the partitioner reads do not change while a reader holds the lock,
\* and the lock is free whenever no call is inside the partitioner.
C20_ReadLockDiscipline ==
  /\ \A t \in Threads :
       /\ t \in rdlock <=> pc[t] = "locked"
       /\ pc[t] = "locked" => (call[t].rdlocks = 1 /\ call[t].unlocks = 0)
       /\ (pc[t] \in {"fail", "done"} /\ call[t].path # "none") =>
            (call[t].rdlocks = 1 /\ call[t].unlocks = 1)
       /\ pc[t] \in {"admit", "rollback", "build", "route"} =>
            (call[t].rdlocks = 0 /\ call[t].unlocks = 0)
  /\ BatchCaller \in rdlock <=> batch.pc = "held"
  /\ batch.rdlocks = 0 /\ batch.unlocks = 0
  /\ ((\A t \in Threads : pc[t] # "locked") /\ batch.pc = "idle") => rdlock = {}

C20_Witness ==
  /\ batch.pc = "held"
  /\ batch.routed
  /\ BatchCaller \in rdlock
  /\ \E t \in Threads :
       /\ pc[t] = "fail"
       /\ call[t].path = "fastfail"
       /\ call[t].rdlocks = 1
       /\ call[t].unlocks = 1
       /\ t \notin rdlock

====
